---- MODULE Spec2Model ----
(***************************************************************************)
(* Model of the Unity documentation indexing pipeline:                      *)
(*   main.py (download_and_index_docs, reset_all),                          *)
(*   src/crawler/unity_crawler.py, src/processor/content_processor.py,      *)
(*   src/storage/structured_store.py, src/storage/vector_store.py,          *)
(*   src/scraper/utils.py, src/server.py.                                   *)
(*                                                                          *)
(* Strings are run-length encoded: a string is a sequence of runs, a run   *)
(* being n >= 1 non-whitespace characters (k = "w", named by c) or one      *)
(* whitespace character (k = "s").  No two word runs are adjacent, so the   *)
(* word runs of a string are exactly the words str.split() returns.        *)
(***************************************************************************)
EXTENDS Integers, Sequences, FiniteSets, TLC

VARIABLES
    pages, classes, methods, properties,      \* SQLite tables (sets of rows)
    classSeq, methodSeq, propSeq,             \* AUTOINCREMENT counters
    manual_collection, script_collection,     \* Chroma collections: id -> record
    pc, path, files, i,                       \* the batch loop and its position
    page_data, page_id, structured_data,      \* locals of the loop body
    class_id, mi, chunks, j,
    processed, errors,                        \* the loop's counters
    runs,                                     \* batches started so far
    trace,                                    \* steps executed for the current page
    attempts,                                 \* times each page of the batch was begun
    failedAt,                                 \* the step that raised, in the except clause
    pre,                                      \* the vector records when the page began
    interrupted,                              \* pages (URL, content) left between the stores
    indexed,                                  \* the URLs indexed since the stores were empty
    lookup,                                   \* last retrieval lookup by URL
    q,                                        \* last query of a store and what it returned
    cp                                        \* the frame of a call followed on its own

vars == <<pages, classes, methods, properties, classSeq, methodSeq, propSeq,
          manual_collection, script_collection, pc, path, files, i,
          page_data, page_id, structured_data, class_id, mi, chunks, j,
          processed, errors, runs, trace, attempts, failedAt, pre, interrupted, indexed,
          lookup, q, cp>>

store_vars == <<pages, classes, methods, properties, classSeq, methodSeq, propSeq,
                manual_collection, script_collection>>

loop_vars == <<pc, path, files, i, page_data, page_id, structured_data,
               class_id, mi, chunks, j, processed, errors, runs, trace, attempts,
               failedAt, pre, interrupted, indexed>>

(***************************************************************************)
(* Bounds of the model.                                                     *)
(***************************************************************************)
MaxRuns == 2

MaxBatch == 2

MaxReruns == 3

(***************************************************************************)
(* Strings.                                                                 *)
(***************************************************************************)
W(c, n) == [k |-> "w", c |-> c, n |-> n]

SP == [k |-> "s", c |-> " ", n |-> 1]

NL == [k |-> "s", c |-> "\n", n |-> 1]

None == "None"

RECURSIVE StrLen(_)
StrLen(s) == IF s = <<>> THEN 0 ELSE Head(s).n + StrLen(Tail(s))

\* str.split(): the maximal non-whitespace runs, in order
Split(s) == SelectSeq(s, LAMBDA r : r.k = "w")

\* " ".join(words)
RECURSIVE Join(_)
Join(ws) ==
    IF ws = <<>> THEN <<>>
    ELSE IF Len(ws) = 1 THEN <<ws[1]>>
    ELSE <<ws[1], SP>> \o Join(Tail(ws))

\* dict.copy() followed by d["chunk_index"] = n
WithChunkIndex(metadata, n) ==
    [key \in DOMAIN metadata \cup {"chunk_index"} |->
        IF key = "chunk_index" THEN n ELSE metadata[key]]

FlushChunk(out, current_chunk, metadata) ==
    Append(out, <<Join(current_chunk), WithChunkIndex(metadata, Len(out))>>)

RECURSIVE ChunkLoopLate(_, _, _, _, _, _)
ChunkLoopLate(words, out, current_chunk, current_length, metadata, chunk_size) ==
    IF words = <<>>
    THEN IF current_chunk # <<>> THEN FlushChunk(out, current_chunk, metadata)
         ELSE out
    ELSE LET word == Head(words)
             word_length == word.n + 1
         IN  IF current_length > chunk_size /\ current_chunk # <<>>
             THEN ChunkLoopLate(Tail(words), FlushChunk(out, current_chunk, metadata),
                                <<word>>, word_length, metadata, chunk_size)
             ELSE ChunkLoopLate(Tail(words), out, Append(current_chunk, word),
                                current_length + word_length, metadata, chunk_size)

\* for word in words: ... followed by the final chunk
RECURSIVE ChunkLoop(_, _, _, _, _, _)
ChunkLoop(words, out, current_chunk, current_length, metadata, chunk_size) ==
    IF words = <<>>
    THEN IF current_chunk # <<>> THEN FlushChunk(out, current_chunk, metadata)
         ELSE out
    ELSE LET word == Head(words)
             word_length == word.n + 1
         IN  IF current_length + word_length > chunk_size /\ current_chunk # <<>>
             THEN ChunkLoop(Tail(words), FlushChunk(out, current_chunk, metadata),
                            <<word>>, word_length, metadata, chunk_size)
             ELSE ChunkLoop(Tail(words), out, Append(current_chunk, word),
                            current_length + word_length, metadata, chunk_size)

SingleChunk(content, metadata) == << <<content, metadata>> >>

prepare_for_vector_store(content, metadata, chunk_size) ==
    IF StrLen(content) <= chunk_size
    THEN SingleChunk(content, metadata)
    ELSE ChunkLoop(Split(content), <<>>, <<>>, 0, metadata, chunk_size)

(***************************************************************************)
(* Page identity: the MD5 hex digest of the URL.  The table holds the real *)
(* digests of the strings the model uses.                                   *)
(***************************************************************************)
md5_hexdigest(s) ==
    CASE s = "file:///en/Manual/A.html" -> "69820b67a863db67f611fdb598047dea"
      [] s = "file:///en/ScriptReference/B.html" -> "3cb1e8c91073798b6ce28ecb797a04d2"
      [] s = "file:///en/ScriptReference/C.html" -> "2291845311f57d29b20bcfcccd85a7e4"
      [] s = "file:///en/D.html" -> "0c7fbe1a64aa770e1358ad72a7467050"
      [] s = "https://docs.unity3d.com/Manual/GameObject.html"
            -> "59eb8d08ceefe35f860e5de0e7878b91"
      [] s = "https://docs.unity3d.com/ScriptReference/GameObject.html"
            -> "81a70bc29d516cbf4b7d34e4cb706e64"
      [] s = "TEXTCOLLBYfGiJUETHQ4hAcKSMd5zYpgqf1YRDhkmxHkhPWptrkoyz28wnI9V0aHeAuaKnak"
            -> "faad49866e9498fc1719f5289e7a0269"
      [] s = "TEXTCOLLBYfGiJUETHQ4hEcKSMd5zYpgqf1YRDhkmxHkhPWptrkoyz28wnI9V0aHeAuaKnak"
            -> "faad49866e9498fc1719f5289e7a0269"

\* src/scraper/utils.py
get_page_id(url) == md5_hexdigest(url)

\* UnityDocsScraper.get_page_id
Scraper_get_page_id(url) == md5_hexdigest(url)

InlinePageIdOtherHash(url) == "sha1:" \o md5_hexdigest(url)

\* the inline hashlib.md5(page_data['url'].encode()).hexdigest()
InlinePageId(url) == md5_hexdigest(url)

PageIdOf(p, url) ==
    CASE p = "download" -> InlinePageId(url)
      [] p = "reset"    -> get_page_id(url)
      [] p = "crawl"    -> Scraper_get_page_id(url)

(***************************************************************************)
(* Paths and URLs.  A path is a sequence of components, a component a      *)
(* sequence of tokens, so that "'Manual' in str(path)" is a token test.    *)
(***************************************************************************)
RECURSIVE Concat(_)
Concat(toks) == IF toks = <<>> THEN "" ELSE Head(toks) \o Concat(Tail(toks))

RECURSIVE JoinPath(_)
JoinPath(comps) ==
    IF comps = <<>> THEN ""
    ELSE IF Len(comps) = 1 THEN Concat(comps[1])
    ELSE Concat(comps[1]) \o "/" \o JoinPath(Tail(comps))

HasToken(comps, tok) ==
    \E a \in 1..Len(comps) : \E b \in 1..Len(comps[a]) : comps[a][b] = tok

\* "/X/" in url: X is a whole component that is not the last one
HasDir(comps, tok) == \E a \in 1..(Len(comps) - 1) : comps[a] = <<tok>>

docs_root == << <<"downloads">>, <<"Documentation">> >>

\* LocalDocsCrawler.read_html_file: doc type from the absolute path
FileDocType(rel) ==
    IF HasToken(docs_root \o rel, "Manual") THEN "manual"
    ELSE IF HasToken(docs_root \o rel, "ScriptReference") THEN "script_reference"
    ELSE "unknown"

\* LocalDocsCrawler.read_html_file: URL from the path relative to docs_root
FileUrl(rel) == "file:///" \o JoinPath(rel)

WebUrl(rel) == "https://docs.unity3d.com/" \o JoinPath(rel)

\* get_doc_type
get_doc_type(rel) ==
    IF HasDir(rel, "Manual") THEN "manual"
    ELSE IF HasDir(rel, "ScriptReference") THEN "script_reference"
    ELSE "unknown"

(***************************************************************************)
(* The documents of the model.                                              *)
(***************************************************************************)
ChunkSize == 1000

cShort == << W("a", 300) >>

cTwo == << W("d", 600), NL, W("e", 600) >>

cOne == << W("f", 300) >>

cWebTwo == << W("g", 600), NL, W("h", 600) >>

cWebOne == << W("k", 300), NL >>

cNoClass == << W("m", 300) >>

cOther == << W("o", 300) >>

cLong == << W("a", 600), SP, W("b", 600), SP, W("c", 600) >>

htmlNone == [methods |-> <<>>, properties |-> <<>>]

htmlB == [methods |-> << [name |-> "M", is_static |-> FALSE] >>,
          properties |-> << [name |-> "p", is_static |-> FALSE] >>]

fileA == [kind |-> "file", rel |-> << <<"en">>, <<"Manual">>, <<"A", ".html">> >>,
          title |-> <<"A">>, html |-> htmlNone, contents |-> {cShort, cLong}]

fileB == [kind |-> "file",
          rel |-> << <<"en">>, <<"ScriptReference">>, <<"B", ".html">> >>,
          title |-> <<"UnityEngine", ".", "B">>, html |-> htmlB,
          contents |-> {cOne, cTwo}]

\* an api-reference page whose title does not begin with a name
fileC == [kind |-> "file",
          rel |-> << <<"en">>, <<"ScriptReference">>, <<"C", ".html">> >>,
          title |-> <<"(", "C", ")">>, html |-> htmlB, contents |-> {cNoClass}]

\* a page of the archive outside the Manual and ScriptReference directories
fileD == [kind |-> "file", rel |-> << <<"en">>, <<"D", ".html">> >>,
          title |-> <<"D">>, html |-> htmlNone, contents |-> {cOther}]

webA == [kind |-> "web", rel |-> << <<"Manual">>, <<"GameObject", ".html">> >>,
         title |-> <<"GameObject">>, html |-> htmlNone, contents |-> {cWebTwo}]

webB == [kind |-> "web", rel |-> << <<"ScriptReference">>, <<"GameObject", ".html">> >>,
         title |-> <<"GameObject">>, html |-> htmlB, contents |-> {cWebOne}]

\* get_manual_files and get_script_reference_files
Files == {fileA, fileB, fileC}

\* find_html_files(docs_dir): every page of the archive
AllFiles == Files \cup {fileD}

WebPages == {webA, webB}

Paths == {"download", "reset", "crawl"}

DocUrl(d) == IF d.kind = "file" THEN FileUrl(d.rel) ELSE WebUrl(d.rel)

DocType(d) == IF d.kind = "file" THEN FileDocType(d.rel) ELSE get_doc_type(d.rel)

\* read_html_file / fetch_page, reading content c
PageData(d, c) ==
    [url |-> DocUrl(d), title |-> d.title, content |-> c, html |-> d.html,
     doc_type |-> DocType(d)]

NoPage == [url |-> None, title |-> <<>>, content |-> <<>>, html |-> htmlNone,
           doc_type |-> None]

\* the batches a run can be given: distinct documents, in any order
Batches(S) ==
    {s \in UNION {[1..n -> S] : n \in 1..MaxBatch} :
        \A a, b \in 1..Len(s) : a # b => s[a] # s[b]}

(***************************************************************************)
(* ContentProcessor.extract_script_reference_data                           *)
(***************************************************************************)
IsWord(tok) == tok \notin {"", ".", " ", "-", ":", "("}

\* length of the longest prefix matching \w+(?:\.\w+)*
RECURSIVE NameEnd(_, _)
NameEnd(title, n) ==
    IF n + 2 <= Len(title) /\ title[n + 1] = "." /\ IsWord(title[n + 2])
    THEN NameEnd(title, n + 2)
    ELSE n

ClassMatch(title) ==
    IF Len(title) >= 1 /\ IsWord(title[1])
    THEN SubSeq(title, 1, NameEnd(title, 1))
    ELSE <<>>

extract_script_reference_data(html, url, title) ==
    LET full_name == ClassMatch(title)
        n == Len(full_name)
    IN  [type |-> "script_reference", url |-> url, title |-> title,
         class_name |-> IF n = 0 THEN None ELSE full_name[n],
         namespace |-> IF n <= 1 THEN None ELSE Concat(SubSeq(full_name, 1, n - 2)),
         methods |-> html.methods,
         properties |-> html.properties]

NoData == [type |-> None, url |-> None, title |-> <<>>, class_name |-> None,
           namespace |-> None, methods |-> <<>>, properties |-> <<>>]

(***************************************************************************)
(* StructuredStore                                                          *)
(***************************************************************************)
add_pageInsertOnly(rows, id, url, title, doc_type, content) ==
    rows \cup {[id |-> id, url |-> url, title |-> title, doc_type |-> doc_type,
                content |-> content]}

\* INSERT OR REPLACE INTO pages: id is the primary key, url is UNIQUE
add_page(rows, id, url, title, doc_type, content) ==
    {r \in rows : r.id # id /\ r.url # url}
        \cup {[id |-> id, url |-> url, title |-> title, doc_type |-> doc_type,
               content |-> content]}

get_page(rows, id) == {r \in rows : r.id = id}

get_page_by_url(rows, url) == {r \in rows : r.url = url}

add_classArgumentsSwapped(rows, seq, name, namespace, pid) ==
    {r \in rows : r.name # name}
        \cup {[id |-> seq + 1, name |-> name, namespace |-> pid,
               page_id |-> namespace]}

add_classKeepsId(rows, seq, name, namespace, pid) ==
    {r \in rows : r.name # name}
        \cup {[id |-> IF \E r \in rows : r.name = name
                      THEN (CHOOSE r \in rows : r.name = name).id ELSE seq + 1,
               name |-> name, namespace |-> namespace, page_id |-> pid]}

add_classInsertOnly(rows, seq, name, namespace, pid) ==
    rows \cup {[id |-> seq + 1, name |-> name, namespace |-> namespace,
                page_id |-> pid]}

\* INSERT OR REPLACE INTO classes: name is UNIQUE, id is AUTOINCREMENT
add_class(rows, seq, name, namespace, pid) ==
    {r \in rows : r.name # name}
        \cup {[id |-> seq + 1, name |-> name, namespace |-> namespace,
               page_id |-> pid]}

add_method(rows, seq, cid, m) ==
    rows \cup {[id |-> seq + 1, class_id |-> cid, name |-> m.name,
                is_static |-> m.is_static]}

add_property(rows, seq, cid, m) ==
    rows \cup {[id |-> seq + 1, class_id |-> cid, name |-> m.name,
                is_static |-> m.is_static]}

(***************************************************************************)
(* VectorStore                                                              *)
(***************************************************************************)
\* {"url": url, "title": title, "doc_type": doc_type, **metadata}
DocMetadata(url, title, doc_type, metadata) ==
    LET base == [url |-> url, title |-> title, doc_type |-> doc_type]
    IN  [key \in DOMAIN base \cup DOMAIN metadata |->
            IF key \in DOMAIN metadata THEN metadata[key] ELSE base[key]]

\* Chroma's collection.add: a record whose id is already in the collection
\* is ignored
CollectionAdd(coll, id, document, metadata) ==
    IF \E r \in coll : r.id = id THEN coll
    ELSE coll \cup {[id |-> id, document |-> document, metadata |-> metadata]}

UsesManualSwapped(doc_type) == doc_type # "manual"

\* collection = manual_collection if doc_type == "manual" else script_collection
UsesManual(doc_type) == doc_type = "manual"

\* f"{page_id}_chunk_{j}" (download_and_index_docs, the crawler),
\* f"{page_id}_{i}" (reset_all)
ChunkId(p, pid, n) ==
    IF p = "reset" THEN pid \o "_" \o ToString(n)
    ELSE pid \o "_chunk_" \o ToString(n)

\* the title argument of add_document
PartTitle(p, title, n, total) ==
    IF p # "reset" /\ total > 1 THEN title \o <<" (part ", ToString(n + 1), ")">>
    ELSE title

ChunkMetadataInTitleAsUrl(pd) ==
    [url |-> Concat(pd.title), title |-> pd.title, doc_type |-> pd.doc_type]

\* metadata={'url': ..., 'title': ..., 'doc_type': ...}
ChunkMetadataIn(pd) == [url |-> pd.url, title |-> pd.title, doc_type |-> pd.doc_type]


(***************************************************************************)
(* The batch loops: download_and_index_docs, reset_all and                  *)
(* UnityCrawler.crawl_and_index with _process_and_store_page.               *)
(***************************************************************************)
NoLookup == [url |-> None, page_id |-> None, found |-> FALSE]

\* what a query returns: None, a dict, or a list of dicts
PyNone == [kind |-> "None", rows |-> <<>>]

PyDict(row) == [kind |-> "dict", rows |-> <<row>>]

PyList(rows) == [kind |-> "list", rows |-> rows]

NoQuery == [op |-> None, arg |-> None, result |-> PyNone]

NoCall == [pc |-> "none", content |-> <<>>, metadata |-> [url |-> None],
           chunk_size |-> 0, result |-> <<>>]

\* nothing indexed yet into empty stores
NoneIndexed == [clean |-> TRUE, urls |-> {}]

\* a page has failed since the stores were empty
SomeFailed == [clean |-> FALSE, urls |-> {}]

Init ==
    /\ pages = {} /\ classes = {} /\ methods = {} /\ properties = {}
    /\ classSeq = 0 /\ methodSeq = 0 /\ propSeq = 0
    /\ manual_collection = {} /\ script_collection = {}
    /\ pc = "idle" /\ path = None /\ files = <<>> /\ i = 0
    /\ page_data = NoPage /\ page_id = None /\ structured_data = NoData
    /\ class_id = 0 /\ mi = 0 /\ chunks = <<>> /\ j = 0
    /\ processed = 0 /\ errors = 0 /\ runs = 0
    /\ trace = <<>> /\ attempts = <<>> /\ failedAt = None
    /\ pre = {} /\ interrupted = {} /\ indexed = NoneIndexed
    /\ lookup = NoLookup /\ q = NoQuery
    /\ cp = NoCall

Log(step) == trace' = Append(trace, step)

ClearLocals ==
    /\ page_data' = NoPage /\ page_id' = None /\ structured_data' = NoData
    /\ class_id' = 0 /\ mi' = 0 /\ chunks' = <<>> /\ j' = 0
    /\ trace' = <<>> /\ failedAt' = None /\ pre' = {}

\* the for statement: the next page of the batch, or the end of the loop
Advance ==
    /\ i' = i + 1
    /\ pc' = IF i < Len(files) THEN "read" ELSE "done"
    /\ ClearLocals

\* the databases a run starts from: reset_all removes both (step 1/4),
\* download_and_index_docs removes both when a new version is being fetched
Cleared(p, clear) == p = "reset" \/ (p = "download" /\ clear)

StartBatchFrom(P, F, Fr, Wb, max_runs) ==
    /\ pc = "idle" /\ runs < max_runs
    /\ \E p \in P, clear \in BOOLEAN :
        \E fs \in Batches(IF p = "crawl" THEN Wb ELSE IF p = "reset" THEN Fr ELSE F) :
            /\ path' = p /\ files' = fs
            /\ attempts' = [n \in 1..Len(fs) |-> 0]
            /\ IF Cleared(p, clear)
               THEN /\ pages' = {} /\ classes' = {} /\ methods' = {}
                    /\ properties' = {}
                    /\ classSeq' = 0 /\ methodSeq' = 0 /\ propSeq' = 0
                    /\ manual_collection' = {} /\ script_collection' = {}
                    /\ interrupted' = {} /\ indexed' = NoneIndexed
               ELSE UNCHANGED <<store_vars, interrupted, indexed>>
    /\ i' = 1 /\ pc' = "read" /\ ClearLocals
    /\ processed' = 0 /\ errors' = 0 /\ runs' = runs + 1
    /\ lookup' = NoLookup /\ q' = NoQuery
    /\ UNCHANGED cp

StartBatch == StartBatchFrom(Paths, Files, AllFiles, WebPages, MaxRuns)

AfterDocumentThenPage(n, total) ==
    IF n + 1 < total THEN "add_document" ELSE "add_page"

AfterDocumentOffByOne(n, total) ==
    IF n + 2 < total THEN "add_document" ELSE "page_done"

\* for j, ... in enumerate(chunks): the step after chunk n of total
AfterDocument(n, total) ==
    IF n + 1 < total THEN "add_document" ELSE "page_done"

AfterExtractAlways(sd) == "add_class"

\* if structured_data['class_name']:
AfterExtract(sd) == IF sd.class_name # None THEN "add_class" ELSE "chunk"

\* the loop body's control flow: the step that follows a step that returned
StepAfter(step, p, pd, sd, n, total) ==
    CASE step = "read" -> "identify"
      [] step = "identify" -> "add_page"
      [] step = "add_page" ->
            IF pd.doc_type = "script_reference" THEN "extract" ELSE "chunk"
      [] step = "extract" -> AfterExtract(sd)
      [] step = "add_class" ->
            IF p = "reset" THEN "chunk"
            ELSE IF sd.methods # <<>> THEN "add_method"
            ELSE IF sd.properties # <<>> THEN "add_property"
            ELSE "chunk"
      [] step = "add_method" ->
            IF n < Len(sd.methods) THEN "add_method"
            ELSE IF sd.properties # <<>> THEN "add_property"
            ELSE "chunk"
      [] step = "add_property" ->
            IF n < Len(sd.properties) THEN "add_property" ELSE "chunk"
      [] step = "chunk" -> IF total > 0 THEN "add_document" ELSE "page_done"
      [] step = "add_document" -> AfterDocument(n, total)

\* local_crawler.read_html_file(file_path) / scraper.fetch_page(url)
ReadPage ==
    /\ pc = "read"
    /\ \E c \in files[i].contents : page_data' = PageData(files[i], c)
    /\ pc' = StepAfter("read", path, page_data', structured_data, 0, 0)
    /\ Log("read")
    /\ attempts' = [attempts EXCEPT ![i] = @ + 1]
    /\ pre' = manual_collection \cup script_collection
    /\ UNCHANGED <<store_vars, path, files, i, page_id, structured_data, class_id,
                   mi, chunks, j, processed, errors, runs, failedAt, interrupted, indexed,
                   lookup, q, cp>>

Identify ==
    /\ pc = "identify"
    /\ page_id' = PageIdOf(path, page_data.url)
    /\ pc' = StepAfter("identify", path, page_data, structured_data, 0, 0)
    /\ Log("identify")
    /\ UNCHANGED <<store_vars, path, files, i, page_data, structured_data, class_id,
                   mi, chunks, j, processed, errors, runs, attempts, failedAt, pre,
                   interrupted, indexed, lookup, q, cp>>

AddPage ==
    /\ pc = "add_page"
    /\ pages' = add_page(pages, page_id, page_data.url, page_data.title,
                         page_data.doc_type, page_data.content)
    /\ pc' = StepAfter("add_page", path, page_data, structured_data, 0, 0)
    /\ Log("add_page")
    /\ UNCHANGED <<classes, methods, properties, classSeq, methodSeq, propSeq,
                   manual_collection, script_collection, path, files, i, page_data,
                   page_id, structured_data, class_id, mi, chunks, j, processed,
                   errors, runs, attempts, failedAt, pre, interrupted, indexed, lookup, q, cp>>

Extract ==
    /\ pc = "extract"
    /\ structured_data' = extract_script_reference_data(page_data.html, page_data.url,
                                                        page_data.title)
    /\ pc' = StepAfter("extract", path, page_data, structured_data', 0, 0)
    /\ Log("extract")
    /\ UNCHANGED <<store_vars, path, files, i, page_data, page_id, class_id,
                   mi, chunks, j, processed, errors, runs, attempts, failedAt, pre,
                   interrupted, indexed, lookup, q, cp>>

AddClass ==
    /\ pc = "add_class"
    /\ classes' = add_class(classes, classSeq, structured_data.class_name,
                            structured_data.namespace, page_id)
    /\ classSeq' = classSeq + 1
    /\ class_id' = classSeq + 1
    /\ mi' = 1
    /\ pc' = StepAfter("add_class", path, page_data, structured_data, 0, 0)
    /\ Log("add_class")
    /\ UNCHANGED <<pages, methods, properties, methodSeq, propSeq,
                   manual_collection, script_collection, path, files, i, page_data,
                   page_id, structured_data, chunks, j, processed, errors, runs,
                   attempts, failedAt, pre, interrupted, indexed, lookup, q, cp>>

AddMethod ==
    /\ pc = "add_method"
    /\ methods' = add_method(methods, methodSeq, class_id, structured_data.methods[mi])
    /\ methodSeq' = methodSeq + 1
    /\ pc' = StepAfter("add_method", path, page_data, structured_data, mi, 0)
    /\ mi' = IF pc' = "add_method" THEN mi + 1 ELSE 1
    /\ Log("add_method")
    /\ UNCHANGED <<pages, classes, properties, classSeq, propSeq,
                   manual_collection, script_collection, path, files, i, page_data,
                   page_id, structured_data, class_id, chunks, j, processed, errors,
                   runs, attempts, failedAt, pre, interrupted, indexed, lookup, q, cp>>

AddProperty ==
    /\ pc = "add_property"
    /\ properties' = add_property(properties, propSeq, class_id,
                                  structured_data.properties[mi])
    /\ propSeq' = propSeq + 1
    /\ pc' = StepAfter("add_property", path, page_data, structured_data, mi, 0)
    /\ mi' = IF pc' = "add_property" THEN mi + 1 ELSE 1
    /\ Log("add_property")
    /\ UNCHANGED <<pages, classes, methods, classSeq, methodSeq,
                   manual_collection, script_collection, path, files, i, page_data,
                   page_id, structured_data, class_id, chunks, j, processed, errors,
                   runs, attempts, failedAt, pre, interrupted, indexed, lookup, q, cp>>

Chunk ==
    /\ pc = "chunk"
    /\ chunks' = prepare_for_vector_store(page_data.content, ChunkMetadataIn(page_data),
                                          ChunkSize)
    /\ j' = 0
    /\ pc' = StepAfter("chunk", path, page_data, structured_data, 0, Len(chunks'))
    /\ Log("chunk")
    /\ UNCHANGED <<store_vars, path, files, i, page_data, page_id, structured_data,
                   class_id, mi, processed, errors, runs, attempts, failedAt, pre,
                   interrupted, indexed, lookup, q, cp>>

add_documentPurging(coll, doc_id, url, title, content, doc_type, metadata) ==
    CollectionAdd({r \in coll : r.metadata.url # url}, doc_id, content,
                  DocMetadata(url, title, doc_type, metadata))

\* VectorStore.add_document
add_document(coll, doc_id, url, title, content, doc_type, metadata) ==
    CollectionAdd(coll, doc_id, content, DocMetadata(url, title, doc_type, metadata))

\* the loop over enumerate(chunks), one pass
AddDocument ==
    /\ pc = "add_document"
    /\ LET doc_id == ChunkId(path, page_id, j)
           title == PartTitle(path, page_data.title, j, Len(chunks))
           text == chunks[j + 1][1]
           meta == chunks[j + 1][2]
       IN  IF UsesManual(page_data.doc_type)
           THEN /\ manual_collection' =
                      add_document(manual_collection, doc_id, page_data.url, title,
                                   text, page_data.doc_type, meta)
                /\ UNCHANGED script_collection
           ELSE /\ script_collection' =
                      add_document(script_collection, doc_id, page_data.url, title,
                                   text, page_data.doc_type, meta)
                /\ UNCHANGED manual_collection
    /\ j' = j + 1
    /\ pc' = StepAfter("add_document", path, page_data, structured_data, j, Len(chunks))
    /\ Log("add_document")
    /\ UNCHANGED <<pages, classes, methods, properties, classSeq, methodSeq, propSeq,
                   path, files, i, page_data, page_id, structured_data, class_id, mi,
                   chunks, processed, errors, runs, attempts, failedAt, pre,
                   interrupted, indexed, lookup, q, cp>>

\* processed += 1
PageDone ==
    /\ pc = "page_done"
    /\ processed' = processed + 1
    /\ interrupted' = {x \in interrupted : x.url # page_data.url}
    /\ indexed' = IF indexed.clean THEN [indexed EXCEPT !.urls = @ \cup {page_data.url}]
                  ELSE indexed
    /\ Advance
    /\ UNCHANGED <<store_vars, path, files, errors, runs, attempts, lookup, q, cp>>

\* the steps that can raise: file or network I/O, a database write, the
\* embedding provider or the vector write
Raising == {"read", "add_page", "add_class", "add_method", "add_property",
            "add_document"}

\* the steps at which the page's structured writes are over and its vector
\* writes are not
BetweenStores == {"chunk", "add_document"}

Interruption(pd) == [url |-> pd.url, content |-> pd.content]

\* a step of the loop body raises; control passes to the except clause
Raise ==
    /\ pc \in Raising
    /\ failedAt' = pc
    /\ pc' = "except"
    /\ attempts' = IF pc = "read" THEN [attempts EXCEPT ![i] = @ + 1] ELSE attempts
    /\ trace' = Append(IF pc = "read" THEN Append(trace, "read") ELSE trace, "failed")
    /\ interrupted' = IF pc \in BetweenStores THEN interrupted \cup {Interruption(page_data)}
                      ELSE interrupted
    /\ indexed' = SomeFailed
    /\ UNCHANGED <<store_vars, path, files, i, page_data, page_id, structured_data,
                   class_id, mi, chunks, j, processed, errors, runs, pre, lookup, q, cp>>

HandleErrorUncounted(n) == n

\* except Exception: errors += 1
HandleError(n) == n + 1

PagesAfterErrorRollback(rows, pid) == {r \in rows : r.id # pid}

\* what the except clause leaves of the page's rows: everything
PagesAfterError(rows, pid) == rows

Except ==
    /\ pc = "except"
    /\ errors' = HandleError(errors)
    /\ pages' = PagesAfterError(pages, page_id)
    /\ Advance
    /\ UNCHANGED <<classes, methods, properties, classSeq, methodSeq, propSeq,
                   manual_collection, script_collection, path, files, processed,
                   runs, attempts, interrupted, indexed, lookup, q, cp>>

\* the function returns (or the process dies): its locals are gone
Return ==
    /\ pc' = "idle" /\ path' = None /\ files' = <<>> /\ i' = 0
    /\ processed' = 0 /\ errors' = 0 /\ attempts' = <<>>
    /\ ClearLocals

\* the process dies in the middle of a page
Crash ==
    /\ pc \notin {"idle", "done"}
    /\ interrupted' = IF pc \in BetweenStores THEN interrupted \cup {Interruption(page_data)}
                      ELSE interrupted
    /\ indexed' = SomeFailed
    /\ Return
    /\ UNCHANGED <<store_vars, runs, lookup, q, cp>>

\* the loop is over and the counts are logged
Finish ==
    /\ pc = "done"
    /\ Return
    /\ UNCHANGED <<store_vars, runs, interrupted, indexed, lookup, q, cp>>

(***************************************************************************)
(* The retrieval server resolving a URL: _get_unity_page.                   *)
(***************************************************************************)
LookupUrls ==
    {DocUrl(d) : d \in AllFiles \cup WebPages}
        \cup {"TEXTCOLLBYfGiJUETHQ4hAcKSMd5zYpgqf1YRDhkmxHkhPWptrkoyz28wnI9V0aHeAuaKnak",
              "TEXTCOLLBYfGiJUETHQ4hEcKSMd5zYpgqf1YRDhkmxHkhPWptrkoyz28wnI9V0aHeAuaKnak"}

GetUnityPage ==
    /\ pc = "idle"
    /\ \E url \in LookupUrls :
        lookup' = [url |-> url, page_id |-> get_page_id(url),
                   found |-> get_page(pages, get_page_id(url)) # {}]
    /\ UNCHANGED <<store_vars, loop_vars, q, cp>>

Next ==
    \/ StartBatch \/ ReadPage \/ Identify \/ AddPage \/ Extract \/ AddClass
    \/ AddMethod \/ AddProperty \/ Chunk \/ AddDocument \/ PageDone \/ Raise
    \/ Except \/ Crash \/ Finish \/ GetUnityPage

Spec == Init /\ [][Next]_vars

(***************************************************************************)
(* Re-running the download over one manual page.                            *)
(***************************************************************************)
StartRerun == StartBatchFrom({"download"}, {fileA}, {}, {}, MaxReruns)

RerunNext ==
    \/ StartRerun \/ ReadPage \/ Identify \/ AddPage \/ Chunk \/ AddDocument
    \/ PageDone \/ Raise \/ Except \/ Crash \/ Finish

RerunSpec == Init /\ [][RerunNext]_vars

(***************************************************************************)
(* Calls of prepare_for_vector_store.                                       *)
(***************************************************************************)
MaxStr == 5

Runs == {W("a", 400), W("b", 700), W("c", 1200), SP, NL}

Normal(s) == \A n \in 1..(Len(s) - 1) : ~(s[n].k = "w" /\ s[n + 1].k = "w")

Strings == {s \in UNION {[1..n -> Runs] : n \in 0..MaxStr} : Normal(s)}

ChunkSizes == {ChunkSize, ChunkSize \div 2, 2 * ChunkSize}

Metadatas == {[url |-> "file:///en/Manual/A.html", title |-> <<"A">>,
               doc_type |-> "manual"],
              [title |-> <<"Test">>, url |-> "https://test.com"]}

ChunkInit ==
    /\ Init!1 /\ Init!2 /\ Init!3 /\ Init!4 /\ Init!5 /\ Init!6 /\ Init!7 /\ Init!8
    /\ Init!9 /\ Init!10
    /\ \E content \in Strings, metadata \in Metadatas, chunk_size \in ChunkSizes :
        cp = [pc |-> "called", content |-> content, metadata |-> metadata,
              chunk_size |-> chunk_size, result |-> <<>>]

PrepareReturns ==
    /\ cp.pc = "called"
    /\ cp' = [cp EXCEPT !.pc = "returned",
                        !.result = prepare_for_vector_store(cp.content, cp.metadata,
                                                            cp.chunk_size)]
    /\ UNCHANGED <<store_vars, loop_vars, lookup, q>>

ChunkNext == PrepareReturns

ChunkSpec == ChunkInit /\ [][ChunkNext]_vars


(***************************************************************************)
(* Properties.                                                              *)
(***************************************************************************)
InLoop == pc \notin {"idle", "done"}

\* the steps of a page that come after step s has returned
AfterStep(s) == InLoop /\ \E n \in 1..Len(trace) : trace[n] = s

\* the collection add_document selects for a document type
CollectionOf(doc_type) ==
    IF doc_type = "manual" THEN manual_collection ELSE script_collection

\* C1: in every batch loop an exception in one page is counted as exactly one
\* error and the loop goes on: every page is begun exactly once, and at the
\* end processed + errors is the number of pages of the batch.
C1_ErrorsCounted ==
    /\ pc = "done" =>
        /\ processed + errors = Len(files)
        /\ \A n \in 1..Len(files) : attempts[n] = 1
    /\ InLoop =>
        /\ processed + errors = i - 1
        /\ \A n \in 1..Len(files) :
            attempts[n] = IF n < i THEN 1
                          ELSE IF n = i /\ pc # "read" THEN 1 ELSE 0

\* a batch whose first page failed and whose second page was processed
C1_Witness ==
    /\ pc = "page_done" /\ i = 2 /\ errors = 1 /\ processed = 0
    /\ path \in Paths

\* C2: indexing a URL again leaves exactly one Page row for it, with the id
\* of every run and the values of the last run, and exactly one Class row for
\* the class name parsed from it.
C2_Upsert ==
    /\ \A r1, r2 \in pages : (r1.url = r2.url \/ r1.id = r2.id) => r1 = r2
    /\ \A c1, c2 \in classes : (c1.name = c2.name \/ c1.id = c2.id) => c1 = c2
    /\ AfterStep("add_page") =>
        {r \in pages : r.url = page_data.url}
            = {[id |-> get_page_id(page_data.url), url |-> page_data.url,
                title |-> page_data.title, doc_type |-> page_data.doc_type,
                content |-> page_data.content]}
    /\ AfterStep("add_class") =>
        {c \in classes : c.name = structured_data.class_name}
            = {[id |-> class_id, name |-> structured_data.class_name,
                namespace |-> structured_data.namespace, page_id |-> page_id]}

\* the page and its class are written a second time, with another content
C2_Witness ==
    /\ AfterStep("add_class")
    /\ classSeq >= 2 /\ Cardinality(classes) = 1 /\ Cardinality(pages) = 1
    /\ \E r \in script_collection :
        r.metadata.url = page_data.url /\ r.document # page_data.content

StructWrites == {"add_page", "add_class", "add_method", "add_property"}

StepOrder == <<"read", "identify", "add_page", "extract", "add_class", "add_method",
               "add_property", "chunk", "add_document", "failed">>

Rank(step) == CHOOSE n \in 1..Len(StepOrder) : StepOrder[n] = step

Before(a, step) == \E b \in 1..(a - 1) : trace[b] = step

TraceOrdered ==
    \A a \in 1..Len(trace) :
        /\ \A b \in 1..(a - 1) : Rank(trace[b]) <= Rank(trace[a])
        /\ trace[a] = "add_page" => Before(a, "identify")
        /\ trace[a] \in StructWrites \ {"add_page"} =>
            Before(a, "extract") /\ Before(a, "add_page")
        /\ trace[a] = "add_document" => Before(a, "chunk") /\ Before(a, "add_page")

VectorFailed == pc = "except" /\ failedAt = "add_document"

\* C4: when the embedding or the vector write of a page fails, the page's
\* Page, Class, Method and Property rows are in the structured store and no
\* step of the failure changes them.
C4_StructuredKept ==
    /\ [](VectorFailed =>
            /\ \E r \in pages : /\ r.id = page_id /\ r.url = page_data.url
                                /\ r.content = page_data.content
            /\ structured_data.class_name # None =>
                /\ \E c \in classes : c.id = class_id /\ c.page_id = page_id
                /\ path # "reset" =>
                    /\ Cardinality({m \in methods : m.class_id = class_id})
                          = Len(structured_data.methods)
                    /\ Cardinality({m \in properties : m.class_id = class_id})
                          = Len(structured_data.properties))
    /\ [][(pc = "add_document" \/ VectorFailed)
            => UNCHANGED <<pages, classes, methods, properties>>]_vars

\* the vector write of an api-reference page with a class and members failed
C4_Witness ==
    /\ VectorFailed /\ class_id > 0
    /\ \E m \in methods : m.class_id = class_id
    /\ \E m \in properties : m.class_id = class_id

HasChunk(n) ==
    \E r \in CollectionOf(page_data.doc_type) : r.id = ChunkId(path, page_id, n)

\* the claim as stated: the chunks other than the failing one are written
C5_Original ==
    VectorFailed => \A n \in 0..(Len(chunks) - 1) : n # j => HasChunk(n)

\* C5 (amended): a provider failure on chunk j of a page ends the page's
\* vector writes: the chunks with a lower ordinal, written before it, stay in
\* the store, and neither chunk j nor any chunk with a higher ordinal is
\* written by this run.
C5_VectorWritesAborted ==
    VectorFailed =>
        /\ \A n \in 0..(j - 1) : HasChunk(n)
        /\ \A r \in (manual_collection \cup script_collection) \ pre :
            \E n \in 0..(j - 1) :
                r.id = ChunkId(path, page_id, n) /\ r.document = chunks[n + 1][1]

\* chunk 0 of three is written, chunk 1 fails, chunk 2 is never written
C5_Witness ==
    /\ VectorFailed /\ j = 1 /\ Len(chunks) > j + 1
    /\ HasChunk(0) /\ ~HasChunk(1) /\ ~HasChunk(j + 1)

Rerun == pc = "page_done" /\ Interruption(page_data) \in interrupted

PageRowCurrent ==
    \E r \in pages : r.url = page_data.url /\ r.content = page_data.content

Ordinal(r) == IF "chunk_index" \in DOMAIN r.metadata THEN r.metadata.chunk_index ELSE 0

C9_ChunkIds ==
    \A r \in manual_collection \cup script_collection :
        r.id = get_page_id(r.metadata.url) \o "_" \o ToString(Ordinal(r))

\* the claim as stated: one chunk, the content, a copy of the metadata with
\* chunk_index 0
C10_SingleChunk ==
    (cp.pc = "returned" /\ StrLen(cp.content) <= cp.chunk_size) =>
        /\ Len(cp.result) = 1
        /\ cp.result[1][1] = cp.content
        /\ cp.result[1][2] = WithChunkIndex(cp.metadata, 0)

Returned == cp.pc = "returned"

ChunkText(n) == cp.result[n][1]

\* len() of the longest element of content.split(), 0 if there is none
LongestWord(s) ==
    LET lens == {s[n].n : n \in {m \in 1..Len(s) : s[m].k = "w"}} \cup {0}
    IN  CHOOSE x \in lens : \A y \in lens : y <= x

\* C11: every chunk returned by prepare_for_vector_store is at most
\* chunk_size plus the longest word of the content long, and a chunk longer
\* than chunk_size is exactly one word.
C11_ChunkSizeBound ==
    Returned =>
        \A n \in 1..Len(cp.result) :
            /\ StrLen(ChunkText(n)) <= cp.chunk_size + LongestWord(cp.content)
            /\ StrLen(ChunkText(n)) > cp.chunk_size =>
                Len(ChunkText(n)) = 1 /\ ChunkText(n)[1].k = "w"

\* a call that returned a chunk of several words and a chunk of one word
\* longer than chunk_size
C11_Witness ==
    /\ Returned /\ Len(cp.result) > 1
    /\ \E n \in 1..Len(cp.result) : StrLen(ChunkText(n)) > cp.chunk_size
    /\ \E n \in 1..Len(cp.result) : Len(Split(ChunkText(n))) > 1

\* the words of the chunks, read in chunk order
RECURSIVE ChunkWords(_)
ChunkWords(result) ==
    IF result = <<>> THEN <<>> ELSE Split(Head(result)[1]) \o ChunkWords(Tail(result))

WordsKept == Returned => ChunkWords(cp.result) = Split(cp.content)

\* the claim as stated: the chunks' words are the content's words in order,
\* and no chunk is empty
C12_WordsPartition ==
    /\ WordsKept
    /\ Returned => \A n \in 1..Len(cp.result) : ChunkText(n) # <<>>

\* the Class rows a Method or Property row points to
OwnersOf(m) == {c \in classes : c.id = m.class_id}

\* the claim as stated: every Method and Property row is owned by exactly
\* one existing Class row
C13_MembersOwned ==
    \A m \in methods \cup properties : Cardinality(OwnersOf(m)) = 1

\* StructuredStore.get_stats: SELECT COUNT(*) of each table
get_stats ==
    [pages_count |-> Cardinality(pages), classes_count |-> Cardinality(classes),
     methods_count |-> Cardinality(methods),
     properties_count |-> Cardinality(properties)]

\* the page has reached Done, and an earlier run had written all of its chunks
IndexedAgain ==
    /\ pc = "page_done"
    /\ \A n \in 0..(Len(chunks) - 1) :
        \E r \in pre : r.id = ChunkId(path, page_id, n) /\ r.document = chunks[n + 1][1]

\* the claim as stated: after an api-reference page, the only page in the
\* store, has been indexed again, there is one row per extracted method and
\* property, as after the first run
C14_MembersNotDuplicated ==
    (IndexedAgain /\ path # "reset" /\ structured_data.class_name # None
        /\ get_stats.pages_count = 1) =>
        /\ get_stats.methods_count = Len(structured_data.methods)
        /\ get_stats.properties_count = Len(structured_data.properties)

\* C15: the page_id of every Class row is the id of a Page row in the store.
C15_ClassHasPage ==
    \A c \in classes : \E r \in pages : r.id = c.page_id

\* the classes of two pages are in the store and a later page has failed
C15_Witness ==
    /\ Cardinality(classes) = 2 /\ Cardinality(pages) > 2
    /\ pc = "except"

ClassWrites == {"add_class", "add_method", "add_property"}

\* the page is an api-reference page with a class name in its title
HasClass(pd) == pd.doc_type = "script_reference" /\ ClassMatch(pd.title) # <<>>

\* C16: while a page is indexed, the classes, methods and properties tables
\* change only in the class, method and property writes of an api-reference
\* page whose title yields a class name; a page of another category or with
\* no class name goes through none of these writes, and when it fails it is
\* in a step that every page has.
C16_ClassOnlyFromApiPage ==
    /\ [][(pc # "idle" /\ <<classes, methods, properties>>' # <<classes, methods, properties>>)
            => (pc \in ClassWrites /\ HasClass(page_data))]_vars
    /\ [](InLoop /\ page_data # NoPage /\ ~HasClass(page_data) =>
            /\ \A a \in 1..Len(trace) : trace[a] \notin ClassWrites
            /\ class_id = 0
            /\ pc = "except" => failedAt \notin ClassWrites)

\* an api-reference page with no class name in its title has been indexed,
\* counted as processed, after a page that wrote a class and its members
C16_Witness ==
    /\ pc = "page_done" /\ i = 2 /\ errors = 0
    /\ page_data.doc_type = "script_reference" /\ ClassMatch(page_data.title) = <<>>
    /\ page_data.html.methods # <<>>
    /\ Cardinality(classes) = 1 /\ methods # {}

\* the documents behind the URLs indexed since the stores were empty
IndexedDocs == {d \in AllFiles \cup WebPages : DocUrl(d) \in indexed.urls}

\* those that are api-reference pages with a class name
ClassDocs == {d \in IndexedDocs : HasClass(PageData(d, <<>>))}

ClassNameOf(d) == extract_script_reference_data(d.html, DocUrl(d), d.title).class_name

AllIndexed == pc \in {"idle", "done"} /\ indexed.clean

\* C17: after N pages have been indexed into empty stores with no failure, M
\* of them api-reference pages with a class name, the names pairwise
\* distinct, get_stats reports classes_count = M and pages_count = the
\* number of distinct URLs indexed.
C17_Stats ==
    (AllIndexed /\ \A d, e \in ClassDocs : d # e => ClassNameOf(d) # ClassNameOf(e)) =>
        /\ get_stats.classes_count = Cardinality(ClassDocs)
        /\ get_stats.pages_count = Cardinality(indexed.urls)

\* three pages indexed in two runs, two of them with a class
C17_Witness ==
    /\ AllIndexed /\ pc = "done" /\ runs = 2
    /\ Cardinality(indexed.urls) = 3 /\ Cardinality(ClassDocs) = 2
    /\ get_stats.pages_count = 3

(***************************************************************************)
(* The queries of the structured store.                                     *)
(***************************************************************************)
FetchOneEmptyDict(S) == PyDict(IF S = {} THEN [id |-> None] ELSE CHOOSE r \in S : TRUE)

\* row = cursor.fetchone(); return dict(row) if row else None
FetchOne(S) == IF S = {} THEN PyNone ELSE PyDict(CHOOSE r \in S : TRUE)

\* the characters of the names the documents give to classes and members
NameChars(name) ==
    CASE name = "B" -> <<"B">>
      [] name = "GameObject" -> <<"G", "a", "m", "e", "O", "b", "j", "e", "c", "t">>
      [] name = "M" -> <<"M">>
      [] name = "p" -> <<"p">>

\* LIKE compares ASCII letters without regard to case
Fold(c) ==
    CASE c = "B" -> "b" [] c = "G" -> "g" [] c = "O" -> "o" [] c = "M" -> "m"
      [] c = "Z" -> "z" [] OTHER -> c

\* str LIKE pat: % matches any run of characters, _ any one character
RECURSIVE Like(_, _)
Like(str, pat) ==
    IF pat = <<>> THEN str = <<>>
    ELSE IF Head(pat) = "%"
         THEN Like(str, Tail(pat)) \/ (str # <<>> /\ Like(Tail(str), pat))
         ELSE /\ str # <<>>
              /\ Head(pat) = "_" \/ Fold(Head(pat)) = Fold(Head(str))
              /\ Like(Tail(str), Tail(pat))

\* name LIKE f"%{query}%"
NameLike(name, query) == Like(NameChars(name), <<"%">> \o query \o <<"%">>)

\* the binary order of the names
NameOrd(name) ==
    CASE name = "B" -> 1 [] name = "GameObject" -> 2 [] name = "M" -> 3
      [] name = "p" -> 4

\* ORDER BY name: the rows in any order that is ascending by name
OrderedByName(S) ==
    {rows \in [1..Cardinality(S) -> S] :
        /\ \A a, b \in 1..Cardinality(S) : a # b => rows[a] # rows[b]
        /\ \A a, b \in 1..Cardinality(S) :
            a < b => NameOrd(rows[a].name) <= NameOrd(rows[b].name)}

\* SELECT m.*, c.name as class_name, c.namespace FROM methods m JOIN classes c
MethodsJoined(query) ==
    {[id |-> m.id, class_id |-> m.class_id, name |-> m.name,
      is_static |-> m.is_static, class_name |-> c.name, namespace |-> c.namespace] :
        <<m, c>> \in {x \in methods \X classes :
                        x[1].class_id = x[2].id /\ NameLike(x[1].name, query)}}

\* get_class: the class row with the lists of its methods and properties
ClassData(S) ==
    IF S = {} THEN PyNone
    ELSE LET c == CHOOSE r \in S : TRUE
         IN  PyDict([id |-> c.id, name |-> c.name, namespace |-> c.namespace,
                     page_id |-> c.page_id,
                     methods |-> {m \in methods : m.class_id = c.id},
                     properties |-> {m \in properties : m.class_id = c.id}])

QueryIds == {get_page_id(DocUrl(d)) : d \in {fileB, webB}} \cup {"nonexistent"}

QueryUrls == {DocUrl(d) : d \in {fileB, webB}} \cup {"https://test.com/none"}

QueryNames == {"B", "GameObject", "b", "Nonexistent"}

QueryTexts == {<<"b">>, <<"O", "b">>, <<"m">>, <<"_">>, <<"Z", "z">>, <<"x", "%", "y">>}

\* a query between two runs; the model follows one query until the next run
Answer(op, arg, result) ==
    /\ pc = "idle" /\ q = NoQuery
    /\ q' = [op |-> op, arg |-> arg, result |-> result]
    /\ UNCHANGED <<store_vars, loop_vars, lookup, cp>>

GetPage == \E id \in QueryIds : Answer("get_page", id, FetchOne(get_page(pages, id)))

GetPageByUrl ==
    \E url \in QueryUrls :
        Answer("get_page_by_url", url, FetchOne(get_page_by_url(pages, url)))

GetClass ==
    \E name \in QueryNames :
        Answer("get_class", name, ClassData({c \in classes : c.name = name}))

SearchClasses ==
    \E query \in QueryTexts :
        \E rows \in OrderedByName({c \in classes : NameLike(c.name, query)}) :
            Answer("search_classes", query, PyList(rows))

SearchMethods ==
    \E query \in QueryTexts :
        \E rows \in OrderedByName(MethodsJoined(query)) :
            Answer("search_methods", query, PyList(rows))

(***************************************************************************)
(* VectorStore.search                                                       *)
(***************************************************************************)
SearchQueries == {"how to move an object", "GameObject"}

\* the distance between the embeddings of a query and of a text: a function
\* of the two that the embedding provider fixes
Distance(query, text) ==
    LET c == text[1].c
    IN  IF query = "GameObject"
        THEN CASE c \in {"a", "d"} -> 3 [] c \in {"b", "f"} -> 1 [] OTHER -> 2
        ELSE CASE c = "f" -> 1 [] c \in {"a", "k"} -> 2 [] c \in {"c", "e"} -> 4
               [] OTHER -> 3

Hit(r, query) ==
    [id |-> r.id, content |-> r.document, metadata |-> r.metadata,
     distance |-> Distance(query, r.document)]

Smaller(n, m) == IF n < m THEN n ELSE m

\* collection.query(query_embeddings, n_results): the n_results nearest
\* records, nearest first, in any order among equal distances
CollectionQuery(coll, query, n_results) ==
    {rows \in [1..Smaller(n_results, Cardinality(coll)) -> {Hit(r, query) : r \in coll}] :
        /\ \A a, b \in DOMAIN rows : a # b => rows[a].id # rows[b].id
        /\ \A a, b \in DOMAIN rows : a < b => rows[a].distance <= rows[b].distance
        /\ \A r \in coll :
            (\A a \in DOMAIN rows : rows[a].id # r.id) =>
                \A a \in DOMAIN rows : rows[a].distance <= Distance(query, r.document)}

RECURSIVE InsertByDistance(_, _)
InsertByDistance(sorted, x) ==
    IF sorted = <<>> THEN <<x>>
    ELSE IF sorted[Len(sorted)].distance <= x.distance THEN Append(sorted, x)
    ELSE Append(InsertByDistance(SubSeq(sorted, 1, Len(sorted) - 1), x),
                sorted[Len(sorted)])

SortSkipped(results) == results

\* results.sort(key=lambda x: x["distance"]): a stable sort
RECURSIVE SortByDistance(_)
SortByDistance(results) ==
    IF results = <<>> THEN <<>>
    ELSE InsertByDistance(SortByDistance(SubSeq(results, 1, Len(results) - 1)),
                          results[Len(results)])

SearchScopes == {None, "manual", "script_reference"}

SearchSizes == {1, 2, 4}

\* for collection in collections: ... results.append(...)
Collected(query, doc_type, n_results) ==
    IF doc_type = "manual" THEN CollectionQuery(manual_collection, query, n_results)
    ELSE IF doc_type = "script_reference"
         THEN CollectionQuery(script_collection, query, n_results)
    ELSE {m \o sc : m \in CollectionQuery(manual_collection, query, n_results),
                    sc \in CollectionQuery(script_collection, query, n_results)}

\* VectorStore.search(query, doc_type, n_results)
Search ==
    \E query \in SearchQueries, doc_type \in SearchScopes, n_results \in SearchSizes :
        \E results \in Collected(query, doc_type, n_results) :
            Answer("search",
                   [query |-> query, doc_type |-> doc_type, n_results |-> n_results],
                   PyList(SubSeq(SortByDistance(results), 1,
                                 Smaller(n_results, Len(results)))))

StartQueried ==
    StartBatchFrom({"download", "crawl"}, {fileA, fileB}, {}, {webB}, MaxRuns)

QueryNext ==
    \/ StartQueried \/ ReadPage \/ Identify \/ AddPage \/ Extract \/ AddClass
    \/ AddMethod \/ AddProperty \/ Chunk \/ AddDocument \/ PageDone \/ Raise
    \/ Except \/ Finish
    \/ GetPage \/ GetPageByUrl \/ GetClass \/ SearchClasses \/ SearchMethods
    \/ Search

QuerySpec == Init /\ [][QueryNext]_vars

Asked(op) == q.op = op

\* C18: get_page, get_page_by_url and get_class return None, and
\* search_classes and search_methods return an empty list, when no row
\* matches the argument; a query changes nothing in the store.
C18_NotFound ==
    /\ [](/\ (Asked("get_page") /\ ~\E r \in pages : r.id = q.arg) => q.result = PyNone
          /\ (Asked("get_page_by_url") /\ ~\E r \in pages : r.url = q.arg)
                => q.result = PyNone
          /\ (Asked("get_class") /\ ~\E c \in classes : c.name = q.arg)
                => q.result = PyNone
          /\ (Asked("search_classes") /\ ~\E c \in classes : NameLike(c.name, q.arg))
                => q.result = PyList(<<>>)
          /\ (Asked("search_methods")
                /\ ~\E m \in methods : NameLike(m.name, q.arg) /\ OwnersOf(m) # {})
                => q.result = PyList(<<>>))
    /\ [][(q' # q /\ q' # NoQuery) => UNCHANGED store_vars]_vars

\* a search that matches nothing in a store that holds classes and methods
C18_Witness ==
    /\ Asked("search_methods") /\ q.result = PyList(<<>>)
    /\ Cardinality(classes) = 2 /\ methods # {}

\* the partitions a search is scoped to
Scope(doc_type) ==
    IF doc_type = "manual" THEN manual_collection
    ELSE IF doc_type = "script_reference" THEN script_collection
    ELSE manual_collection \cup script_collection

Found == q.result.rows

\* C19: search returns at most n_results records in ascending order of
\* distance, and they are the n_results nearest records of the partition the
\* query is scoped to, or of both partitions together for an unscoped query.
C19_SearchNearest ==
    Asked("search") =>
        LET S == Scope(q.arg.doc_type)
        IN  /\ Len(Found) = Smaller(q.arg.n_results, Cardinality(S))
            /\ \A a, b \in 1..Len(Found) :
                a < b => Found[a].distance <= Found[b].distance /\ Found[a].id # Found[b].id
            /\ \A a \in 1..Len(Found) : \E r \in S : Found[a] = Hit(r, q.arg.query)
            /\ \A r \in S :
                (\A a \in 1..Len(Found) : Found[a].id # r.id) =>
                    \A a \in 1..Len(Found) :
                        Found[a].distance <= Distance(q.arg.query, r.document)

\* an unscoped search for two records over partitions of three and two: the
\* nearest is in the api-reference partition, the next in the manual one
C19_Witness ==
    /\ Asked("search") /\ q.arg.doc_type = None /\ q.arg.n_results = 2
    /\ Cardinality(manual_collection) > 2 /\ Cardinality(script_collection) > 1
    /\ Len(Found) = 2
    /\ Found[1].metadata.doc_type = "script_reference"
    /\ Found[2].metadata.doc_type = "manual"

\* the claim as stated: each partition holds records of its own category only
C20_PartitionCategory ==
    /\ \A r \in manual_collection : r.metadata.doc_type = "manual"
    /\ \A r \in script_collection : r.metadata.doc_type = "script_reference"


(***************************************************************************)
(* The retrieval server: UnityMCPServer.call_tool and its handlers.         *)
(***************************************************************************)
\* [TextContent(type="text", text=...)]: the message and what it lists
Text(msg, items) == [kind |-> "text", msg |-> msg, items |-> items]

\* the arguments of a call: the keys given, and their values
Arguments(given, query, doc_type, class_name, method_name, n, flag) ==
    [given |-> given, query |-> query, use_case |-> query, url |-> query,
     topic |-> query, doc_type |-> doc_type, query_type |-> "auto",
     class_name |-> class_name, method_name |-> method_name, n |-> n,
     static_only |-> flag, prefer_code |-> flag]

\* an exception leaving a handler
Raised(e) == [kind |-> "raise", msg |-> e, items |-> <<>>]

\* args[key]: a KeyError for a key that is not given
Required(args, key, responses) ==
    IF key \in args.given THEN responses ELSE {Raised("KeyError")}

\* args.get(key): None for a key that is not given
ArgsGet(args, key) == IF key \in args.given THEN args[key] ELSE None

\* vector_doc_type: None unless doc_type is "manual" or "script_reference"
VectorDocType(doc_type) ==
    IF doc_type \in {"manual", "script_reference"} THEN doc_type ELSE None

\* self.vector_store.search(query, doc_type, n_results)
VectorSearch(query, doc_type, n_results) ==
    {SubSeq(SortByDistance(results), 1, Smaller(n_results, Len(results))) :
        results \in Collected(query, doc_type, n_results)}

\* for result in search_results: the pages of the URLs not seen before, until
\* limit of them are found
RECURSIVE Documents(_, _, _)
Documents(results, seen, limit) ==
    IF results = <<>> \/ limit = 0 THEN <<>>
    ELSE LET url == Head(results).metadata.url
             page == get_page(pages, get_page_id(url))
         IN  IF url \in seen \/ page = {}
             THEN Documents(Tail(results), seen \cup {url}, limit)
             ELSE <<(CHOOSE r \in page : TRUE).url>>
                      \o Documents(Tail(results), seen \cup {url}, limit - 1)

\* soup.find_all(["pre", "code"]) over page["content"], the stored text of
\* the page at url: it holds the words of the document and no markup
CodeBlocks(url) == <<>>

search_unity_docsUnchecked(args) ==
    Required(args, "query",
        {IF results = <<>> THEN Raised("IndexError")
         ELSE Text("Found results", [k \in DOMAIN results |-> results[k].metadata.url]) :
            results \in VectorSearch(args.query, VectorDocType(args.doc_type), args.n)})

search_unity_docs(args) ==
    Required(args, "query",
        {IF results = <<>> THEN Text("No results found for query", <<>>)
         ELSE Text("Found results", [k \in DOMAIN results |-> results[k].metadata.url]) :
            results \in VectorSearch(args.query, VectorDocType(args.doc_type), args.n)})

query_unity_structure(args) ==
    Required(args, "query",
        LET cls == IF args.query_type \in {"class", "auto"}
                   THEN {c \in classes : NameLike(c.name, args.query)} ELSE {}
            ms == IF args.query_type \in {"method", "auto"}
                  THEN MethodsJoined(args.query) ELSE {}
        IN  IF cls = {} /\ ms = {}
            THEN {Text("No structured data found for query", <<>>)}
            ELSE {Text("matching", [k \in DOMAIN c |-> c[k].name]
                                       \o [k \in DOMAIN m |-> m[k].name]) :
                    c \in OrderedByName(cls), m \in OrderedByName(ms)})

get_unity_page(args) ==
    Required(args, "url",
        LET page == get_page(pages, get_page_id(args.url))
        IN  IF page # {} THEN {Text("(cached)", <<(CHOOSE r \in page : TRUE).url>>)}
            ELSE {Text("Page not found in cache", <<>>)})

refresh_documentation(args) ==
    Required(args, "url", {Text("Refresh from web is no longer supported", <<>>)})

get_cache_stats(args) == {Text("Unity Documentation Cache Statistics", <<>>)}

get_full_documents(args) ==
    Required(args, "query",
        {IF results = <<>> THEN Text("No documents found for query", <<>>)
         ELSE IF Documents(results, {}, args.n) = <<>>
              THEN Text("Found search results but no full documents available", <<>>)
              ELSE Text("Found full document(s)", Documents(results, {}, args.n)) :
            results \in VectorSearch(args.query, VectorDocType(args.doc_type), args.n * 3)})

\* the classes of the model's documents name no base class, so the
\* inheritance branch adds nothing
get_related_documents(args) ==
    LET class_name == ArgsGet(args, "class_name")
        topic == ArgsGet(args, "topic")
        found == IF class_name = None THEN {} ELSE {c \in classes : c.name = class_name}
        page == IF found = {} THEN {}
                ELSE get_page(pages, (CHOOSE c \in found : TRUE).page_id)
        main == IF page = {} THEN <<>> ELSE <<(CHOOSE r \in page : TRUE).url>>
        head == IF class_name = None THEN <<>>
                ELSE IF found # {} THEN <<"Related Documents for Class">>
                ELSE <<"Class not found in structured data. Performing semantic search">>
    IN  IF class_name = None /\ topic = None
        THEN {Text("Please provide either 'class_name' or 'topic' parameter", <<>>)}
        ELSE {IF head = <<>> /\ Documents(results, {}, args.n) = <<>>
              THEN Text("No related documents found", <<>>)
              ELSE Text(IF head = <<>> THEN "Total related documents" ELSE head[1],
                        main \o Documents(results, {main[k] : k \in DOMAIN main}, args.n)) :
                results \in VectorSearch(IF class_name # None THEN class_name ELSE topic,
                                         None, args.n * 2)}

extract_code_examples(args) ==
    Required(args, "query",
        {IF results = <<>> THEN Text("No documentation found", <<>>)
         ELSE LET docs == Documents(results, {}, Len(results))
                  code == {k \in DOMAIN docs :
                             CodeBlocks(docs[k]) # <<>>}
              IN  IF code = {} THEN Text("No code examples found", <<>>)
                  ELSE Text("Found Code Example(s)", docs) :
            results \in VectorSearch(args.query, VectorDocType(args.doc_type), args.n * 3)})

get_method_signatures(args) ==
    LET class_name == ArgsGet(args, "class_name")
        method_name == ArgsGet(args, "method_name")
        Static(S) == {m \in S : ~args.static_only \/ m.is_static}
        Names(rows) == [k \in DOMAIN rows |-> rows[k].name]
    IN  IF class_name = None /\ method_name = None
        THEN {Text("Please provide either 'class_name' or 'method_name' parameter", <<>>)}
        ELSE IF class_name # None
        THEN LET found == {c \in classes : c.name = class_name}
                 cd == CHOOSE x \in found : TRUE
             IN  IF found = {} THEN {Text("Class not found in database", <<>>)}
                 ELSE {Text("API Reference", <<class_name>> \o Names(ms) \o Names(ps)) :
                        ms \in OrderedByName(Static({m \in methods : m.class_id = cd.id})),
                        ps \in OrderedByName(Static({m \in properties : m.class_id = cd.id}))}
        ELSE IF MethodsJoined(method_name) = {}
             THEN {Text("No methods found matching", <<>>)}
        ELSE IF Static(MethodsJoined(method_name)) = {}
             THEN {Text("No static methods found matching", <<>>)}
        ELSE {Text("Methods matching", Names(ms)) :
                ms \in OrderedByName(Static(MethodsJoined(method_name)))}

\* query_enhancements["intermediate"], the default experience level
Enhanced(use_case) == use_case \o " implementation best practices example"

search_by_use_case(args) ==
    Required(args, "use_case",
        {IF results = <<>> THEN Text("No documentation found for use case", <<>>)
         ELSE LET docs == Documents(results, {}, Len(results))
                  kept == SelectSeq(docs, LAMBDA u :
                            ~args.prefer_code \/ CodeBlocks(u) # <<>>)
              IN  IF kept = <<>> THEN Text("No solutions found", <<>>)
                  ELSE Text("Solutions for", SubSeq(kept, 1, Smaller(args.n, Len(kept)))) :
            results \in VectorSearch(Enhanced(args.use_case), None, args.n * 2)})

ToolNames ==
    {"search_unity_docs", "query_unity_structure", "get_unity_page",
     "refresh_documentation", "get_cache_stats", "get_full_documents",
     "get_related_documents", "extract_code_examples", "get_method_signatures",
     "search_by_use_case"}

\* the handler of the tool; an exception becomes an "Error: ..." text
call_tool(name, args) ==
    LET out ==
          CASE name = "search_unity_docs" -> search_unity_docs(args)
            [] name = "query_unity_structure" -> query_unity_structure(args)
            [] name = "get_unity_page" -> get_unity_page(args)
            [] name = "refresh_documentation" -> refresh_documentation(args)
            [] name = "get_cache_stats" -> get_cache_stats(args)
            [] name = "get_full_documents" -> get_full_documents(args)
            [] name = "get_related_documents" -> get_related_documents(args)
            [] name = "extract_code_examples" -> extract_code_examples(args)
            [] name = "get_method_signatures" -> get_method_signatures(args)
            [] name = "search_by_use_case" -> search_by_use_case(args)
            [] OTHER -> {Text("Unknown tool", <<>>)}
    IN  {IF r.kind = "raise" THEN Text("Error: " \o r.msg, <<>>) ELSE r : r \in out}

\* the arguments the model calls a tool with; one call of each tool leaves
\* its keys out
ToolArguments(name) ==
    CASE name \in {"search_unity_docs", "get_full_documents", "extract_code_examples"} ->
            {Arguments({"query"}, query, doc_type, None, None, n, TRUE) :
                query \in SearchQueries, doc_type \in {"both", "manual"}, n \in {1, 2}}
                \cup {Arguments({}, "GameObject", "both", None, None, 1, TRUE)}
      [] name = "search_by_use_case" ->
            {Arguments({"use_case"}, query, "both", None, None, 1, flag) :
                query \in SearchQueries, flag \in BOOLEAN}
                \cup {Arguments({}, "GameObject", "both", None, None, 1, TRUE)}
      [] name = "query_unity_structure" ->
            {Arguments({"query"}, query, "both", None, None, 1, TRUE) :
                query \in QueryTexts}
                \cup {Arguments({}, <<"b">>, "both", None, None, 1, TRUE)}
      [] name \in {"get_unity_page", "refresh_documentation"} ->
            {Arguments({"url"}, url, "both", None, None, 1, TRUE) : url \in LookupUrls}
                \cup {Arguments({}, DocUrl(fileA), "both", None, None, 1, TRUE)}
      [] name = "get_related_documents" ->
            {Arguments(g, "GameObject", "both", class_name, None, 1, TRUE) :
                g \in SUBSET {"class_name", "topic"},
                class_name \in {"B", "Nonexistent"}}
      [] name = "get_method_signatures" ->
            {Arguments(g, None, "both", class_name, method_name, 1, flag) :
                g \in {{"class_name"}, {"method_name"}, {}},
                class_name \in {"B", "Nonexistent"},
                method_name \in {<<"m">>, <<"Z", "z">>}, flag \in BOOLEAN}
      [] OTHER -> {Arguments({}, None, "both", None, None, 1, TRUE)}

CallToolRefreshing ==
    /\ pc = "idle" /\ q = NoQuery
    /\ \E name \in ToolNames \cup {"unknown_tool"} :
        \E args \in ToolArguments(name) :
            \E r \in call_tool(name, args) :
                /\ q' = [op |-> name, arg |-> args, result |-> r]
                /\ pages' = IF name = "refresh_documentation" /\ "url" \in args.given
                            THEN {row \in pages : row.url # args.url}
                            ELSE pages
                /\ UNCHANGED <<classes, methods, properties, classSeq, methodSeq,
                               propSeq, manual_collection, script_collection,
                               loop_vars, lookup, cp>>

\* one tool call between two runs
CallTool ==
    /\ pc = "idle" /\ q = NoQuery
    /\ \E name \in ToolNames \cup {"unknown_tool"} :
        \E args \in ToolArguments(name) :
            \E r \in call_tool(name, args) : Answer(name, args, r)

StartServed == StartBatchFrom({"download"}, {fileA, fileB}, {}, {}, MaxRuns)

ToolNext ==
    \/ StartServed \/ ReadPage \/ Identify \/ AddPage \/ Extract \/ AddClass
    \/ AddMethod \/ AddProperty \/ Chunk \/ AddDocument \/ PageDone \/ Raise
    \/ Except \/ Finish \/ CallTool

ToolSpec == Init /\ [][ToolNext]_vars


Stored(url) == get_page(pages, get_page_id(url)) # {}

\* the records of the collections a search with doc_type looks in
InScope(doc_type) ==
    IF doc_type = "manual" THEN manual_collection
    ELSE IF doc_type = "script_reference" THEN script_collection
    ELSE manual_collection \cup script_collection

\* the request of the last tool call names what it must
WellFormed ==
    CASE q.op \in {"search_unity_docs", "query_unity_structure", "get_full_documents",
                   "extract_code_examples"} -> "query" \in q.arg.given
      [] q.op = "get_unity_page" -> "url" \in q.arg.given
      [] q.op = "search_by_use_case" -> "use_case" \in q.arg.given
      [] q.op = "get_related_documents" -> q.arg.given \cap {"class_name", "topic"} # {}
      [] q.op = "get_method_signatures" ->
            q.arg.given \cap {"class_name", "method_name"} # {}
      [] OTHER -> FALSE

\* nothing in the stores matches the request of the last tool call
NothingMatches ==
    LET a == q.arg
    IN  CASE q.op = "search_unity_docs" -> InScope(a.doc_type) = {}
          [] q.op = "query_unity_structure" ->
                /\ ~\E c \in classes : NameLike(c.name, a.query)
                /\ ~\E m \in methods, c \in classes :
                        m.class_id = c.id /\ NameLike(m.name, a.query)
          [] q.op = "get_unity_page" -> ~Stored(a.url)
          [] q.op = "get_full_documents" ->
                ~\E r \in InScope(a.doc_type) : Stored(r.metadata.url)
          [] q.op = "get_related_documents" ->
                /\ "class_name" \in a.given => ~\E c \in classes : c.name = a.class_name
                /\ ~\E r \in InScope("both") : Stored(r.metadata.url)
          [] q.op = "extract_code_examples" ->
                ~\E r \in InScope(a.doc_type) :
                    Stored(r.metadata.url) /\ CodeBlocks(r.metadata.url) # <<>>
          [] q.op = "get_method_signatures" ->
                IF "class_name" \in a.given
                THEN ~\E c \in classes : c.name = a.class_name
                ELSE ~\E m \in methods, c \in classes :
                        m.class_id = c.id /\ NameLike(m.name, a.method_name)
          [] q.op = "search_by_use_case" ->
                ~\E r \in InScope("both") :
                    /\ Stored(r.metadata.url)
                    /\ a.prefer_code => CodeBlocks(r.metadata.url) # <<>>
          [] OTHER -> FALSE

\* the texts that say that nothing was found
NoResultsMessages ==
    {"No results found for query", "No structured data found for query",
     "Page not found in cache", "No documents found for query",
     "Found search results but no full documents available",
     "No related documents found",
     "Class not found in structured data. Performing semantic search",
     "No documentation found", "No code examples found",
     "Class not found in database", "No methods found matching",
     "No documentation found for use case", "No solutions found"}

FieldOrder ==
    <<"class_name", "description", "inherits_from", "is_static", "methods",
      "properties", "constructors">>

\* the markup of an api-reference page: what each statement finds in it
Markups ==
    [description : {None, "d"}, inherits_from : {None, "Object"},
     methods : {<<>>, htmlB.methods}, properties : {<<>>, htmlB.properties},
     constructors : {<<>>, <<[signature |-> "B()"]>>}]

\* result = {defaults}; try: the statements; except Exception: log; return
\* result.  raises names the statement that raises, None when none does.
TryExtract(html, url, title, raises) ==
    LET At(f) == CHOOSE k \in DOMAIN FieldOrder : FieldOrder[k] = f
        Ran(f) == raises = None \/ At(f) < At(raises)
        full_name == ClassMatch(title)
        n == Len(full_name)
    IN  [type |-> "script_reference", url |-> url, title |-> title,
         class_name |-> IF Ran("class_name") /\ n # 0 THEN full_name[n] ELSE None,
         namespace |-> IF Ran("class_name") /\ n > 1
                       THEN Concat(SubSeq(full_name, 1, n - 2)) ELSE None,
         description |-> IF Ran("description") THEN html.description ELSE None,
         inherits_from |-> IF Ran("inherits_from") THEN html.inherits_from ELSE None,
         methods |-> IF Ran("methods") THEN html.methods ELSE <<>>,
         properties |-> IF Ran("properties") THEN html.properties ELSE <<>>,
         constructors |-> IF Ran("constructors") THEN html.constructors ELSE <<>>]

ExtractInit ==
    /\ Init!1 /\ Init!2 /\ Init!3 /\ Init!4 /\ Init!5 /\ Init!6 /\ Init!7 /\ Init!8
    /\ Init!9 /\ Init!10
    /\ \E html \in Markups, d \in {fileB, fileC},
          raises \in {None} \cup {FieldOrder[k] : k \in DOMAIN FieldOrder} :
        cp = [pc |-> "called", html |-> html, url |-> DocUrl(d), title |-> d.title,
              raises |-> raises, result |-> NoData]

ExtractReturns ==
    /\ cp.pc = "called"
    /\ cp' = [cp EXCEPT !.pc = "returned",
                        !.result = TryExtract(cp.html, cp.url, cp.title, cp.raises)]
    /\ UNCHANGED <<store_vars, loop_vars, lookup, q>>

ExtractSpec == ExtractInit /\ [][ExtractReturns]_vars

\* C23: if extracting one field of an api-reference page (description,
\* inheritance, methods, properties or constructors) raises, only that field
\* keeps its empty default: the fields that come after it are extracted,
\* and the record is returned with the title and the URL of the page.
C23_FieldIsolation ==
    (cp.pc = "returned"
        /\ cp.raises \in {"description", "inherits_from", "methods", "properties",
                          "constructors"}) =>
        /\ cp.result.url = cp.url /\ cp.result.title = cp.title
        /\ \A f \in {"description", "inherits_from", "methods", "properties",
                     "constructors"} :
            f # cp.raises => cp.result[f] = cp.html[f]


C25_MembersOfLastRun ==
    /\ [][\A c \in classes' \ classes :
            ~\E m \in methods \cup properties : m.class_id = c.id]_vars
    /\ [](pc \in {"add_method", "add_property"} =>
            \E c \in classes : c.id = class_id /\ c.name = structured_data.class_name)
    /\ []((Asked("get_class") /\ q.result.kind = "dict") =>
            LET c == q.result.rows[1]
            IN  /\ \A m \in c.methods \cup c.properties :
                    m.class_id = c.id /\ \E x \in classes : x.id = c.id
                /\ \A m, n \in c.methods : m.name = n.name => m = n
                /\ \A m, n \in c.properties : m.name = n.name => m = n)
    /\ [](Asked("search_methods") =>
            \A k, l \in DOMAIN q.result.rows :
                LET m == q.result.rows[k]
                    n == q.result.rows[l]
                IN  /\ \E x \in classes : x.id = m.class_id /\ x.name = m.class_name
                    /\ (m.class_name = n.class_name /\ m.name = n.name) => k = l)

\* class B was written twice: the method of the first run is still in the
\* table, and the queries return the one of the second run only
C25_Witness ==
    /\ \E m \in methods : m.name = "M" /\ ~\E c \in classes : c.id = m.class_id
    /\ \/ /\ Asked("get_class") /\ q.arg = "B" /\ q.result.kind = "dict"
          /\ Cardinality(q.result.rows[1].methods) = 1
       \/ /\ Asked("search_methods") /\ Len(q.result.rows) = 1
          /\ q.result.rows[1].class_name = "B"


C27_PathsEquivalent ==
    (pc = "page_done" /\ runs = 1) =>
        /\ \E r \in pages :
            /\ r.id = get_page_id(page_data.url) /\ r.url = page_data.url
            /\ r.content = page_data.content
        /\ structured_data.class_name # None =>
            /\ \E c \in classes : c.id = class_id /\ c.name = structured_data.class_name
            /\ \A k \in DOMAIN structured_data.methods :
                \E m \in methods :
                    m.class_id = class_id /\ m.name = structured_data.methods[k].name
            /\ \A k \in DOMAIN structured_data.properties :
                \E m \in properties :
                    m.class_id = class_id /\ m.name = structured_data.properties[k].name
        /\ \A n \in 0..(Len(chunks) - 1) :
            \E r \in CollectionOf(page_data.doc_type) :
                /\ r.id = ChunkId("download", page_id, n)
                /\ r.document = chunks[n + 1][1]
                /\ r.metadata =
                     DocMetadata(page_data.url,
                                 PartTitle("download", page_data.title, n, Len(chunks)),
                                 page_data.doc_type, chunks[n + 1][2])


(***************************************************************************)
(* UnityScraper.crawl_all_pages.  cp holds the frame of the call.           *)
(***************************************************************************)
MaxPages == 2

Docs(rel) == [host |-> "docs.unity3d.com", rel |-> rel]

\* f"{self.MANUAL_BASE}index.html", f"{self.SCRIPT_REF_BASE}index.html"
StartUrls(doc_type) ==
    (IF doc_type \in {"manual", "both"}
     THEN {Docs(<< <<"Manual">>, <<"index", ".html">> >>)} ELSE {})
    \cup (IF doc_type \in {"script_reference", "both"}
          THEN {Docs(<< <<"ScriptReference">>, <<"index", ".html">> >>)} ELSE {})

\* the URLs of the sites the model crawls
CrawlUrls ==
    StartUrls("both")
        \cup {Docs(webA.rel), Docs(webB.rel),
              [host |-> "unity.com", rel |-> << <<"Manual">>, <<"x", ".html">> >>]}

\* a[href] of the page at url, made absolute, in document order
Links(site, url) ==
    LET m == Docs(<< <<"Manual">>, <<"index", ".html">> >>)
        s == Docs(<< <<"ScriptReference">>, <<"index", ".html">> >>)
        a == Docs(webA.rel)
        b == Docs(webB.rel)
        x == [host |-> "unity.com", rel |-> << <<"Manual">>, <<"x", ".html">> >>]
    IN  IF site = "hub"
        THEN CASE url = m -> <<a, b, x, a, m>>
               [] url = s -> <<b, a>>
               [] url = a -> <<m, a>>
               [] OTHER -> <<>>
        ELSE CASE url = m -> <<a>>
               [] url = a -> <<b, s>>
               [] url = b -> <<m, x>>
               [] OTHER -> <<b>>

\* _is_unity_docs_url
is_unity_docs_url(url, doc_type) ==
    /\ url.host = "docs.unity3d.com"
    /\ IF doc_type = "manual" THEN HasDir(url.rel, "Manual")
       ELSE IF doc_type = "script_reference" THEN HasDir(url.rel, "ScriptReference")
       ELSE HasDir(url.rel, "Manual") \/ HasDir(url.rel, "ScriptReference")

\* for link in links: the frontier and the list of discovered URLs after
RECURSIVE FollowLinks(_, _)
FollowLinks(links, f) ==
    IF links = <<>> THEN f
    ELSE LET u == Head(links)
             new == is_unity_docs_url(u, f.doc_type) /\ u \notin f.crawled_urls
         IN  FollowLinks(Tail(links),
                [f EXCEPT !.urls_to_crawl = IF new THEN @ \cup {u} ELSE @,
                          !.discovered_urls =
                              IF new /\ \A k \in DOMAIN @ : @[k] # u
                              THEN Append(@, u) ELSE @])

\* while urls_to_crawl and (max_pages is None or len(crawled_urls) < max_pages)
KeepCrawling(f) ==
    /\ f.urls_to_crawl # {}
    /\ ~f.limited \/ Cardinality(f.crawled_urls) < f.max_pages

CrawlInit ==
    /\ Init!1 /\ Init!2 /\ Init!3 /\ Init!4 /\ Init!5 /\ Init!6 /\ Init!7 /\ Init!8
    /\ Init!9 /\ Init!10
    /\ \E doc_type \in {"manual", "script_reference", "both"}, limited \in BOOLEAN,
          max_pages \in 0..MaxPages, site \in {"hub", "chain"} :
        cp = [pc |-> "loop", doc_type |-> doc_type, limited |-> limited,
              max_pages |-> max_pages, site |-> site,
              urls_to_crawl |-> StartUrls(doc_type), crawled_urls |-> {},
              discovered_urls |-> <<>>, gotos |-> [u \in CrawlUrls |-> 0]]

\* url = urls_to_crawl.pop(); if url in crawled_urls: continue
SkipCrawled ==
    /\ cp.pc = "loop" /\ KeepCrawling(cp)
    /\ \E url \in cp.urls_to_crawl \cap cp.crawled_urls :
        cp' = [cp EXCEPT !.urls_to_crawl = @ \ {url}]
    /\ UNCHANGED <<store_vars, loop_vars, lookup, q>>

CrawlPageRetrying ==
    /\ cp.pc = "loop" /\ KeepCrawling(cp)
    /\ \E url \in cp.urls_to_crawl \ cp.crawled_urls :
        \E k \in 0..Len(Links(cp.site, url)) :
            LET f == FollowLinks(SubSeq(Links(cp.site, url), 1, k),
                                 [cp EXCEPT !.urls_to_crawl = @ \ {url},
                                            !.gotos[url] = @ + 1])
            IN  cp' = IF k < Len(Links(cp.site, url)) THEN f
                      ELSE [f EXCEPT !.crawled_urls = @ \cup {url}]
    /\ UNCHANGED <<store_vars, loop_vars, lookup, q>>

\* one pass of the loop for a URL that is not crawled: page.goto(url), the
\* links followed until the last or until one raises, and the URL marked
\* crawled in both cases
CrawlPage ==
    /\ cp.pc = "loop" /\ KeepCrawling(cp)
    /\ \E url \in cp.urls_to_crawl \ cp.crawled_urls :
        \E k \in 0..Len(Links(cp.site, url)) :
            LET f == FollowLinks(SubSeq(Links(cp.site, url), 1, k),
                                 [cp EXCEPT !.urls_to_crawl = @ \ {url},
                                            !.gotos[url] = @ + 1])
            IN  cp' = [f EXCEPT !.crawled_urls = @ \cup {url}]
    /\ UNCHANGED <<store_vars, loop_vars, lookup, q>>

\* the loop is over: return discovered_urls
CrawlReturn ==
    /\ cp.pc = "loop" /\ ~KeepCrawling(cp)
    /\ cp' = [cp EXCEPT !.pc = "returned"]
    /\ UNCHANGED <<store_vars, loop_vars, lookup, q>>

CrawlSpec == CrawlInit /\ [][SkipCrawled \/ CrawlPage \/ CrawlReturn]_vars

\* C28: crawl_and_index(doc_type, max_pages=N) fetches and indexes at most
\* N pages: the list that crawl_all_pages returns for max_pages=N has at
\* most N entries and holds no URL twice.
C28_AtMostMaxPages ==
    (cp.pc = "returned" /\ cp.limited) =>
        /\ Len(cp.discovered_urls) <= cp.max_pages
        /\ \A a, b \in DOMAIN cp.discovered_urls :
            a # b => cp.discovered_urls[a] # cp.discovered_urls[b]

\* C29: crawl_all_pages navigates to each URL at most once: a URL that was
\* crawled, or whose load failed, is marked crawled and is not loaded again
\* when later pages link to it, and the loop ends when the frontier is empty
\* or max_pages URLs have been crawled, and not before.
C29_EachUrlOnce ==
    /\ [](\A u \in CrawlUrls : /\ cp.gotos[u] <= 1
                              /\ cp.gotos[u] = 1 <=> u \in cp.crawled_urls)
    /\ [][\A u \in cp.crawled_urls :
            u \in cp'.crawled_urls /\ cp'.gotos[u] = cp.gotos[u]]_vars
    /\ [](cp.pc = "returned" =>
            \/ cp.urls_to_crawl = {}
            \/ cp.limited /\ Cardinality(cp.crawled_urls) >= cp.max_pages)
    /\ [][cp'.pc = "returned" => ~KeepCrawling(cp)]_vars

\* a crawled page is linked from a page crawled after it, and the crawl ends
\* with max_pages URLs crawled and the frontier not empty
C29_Witness ==
    /\ cp.pc = "returned" /\ cp.limited /\ cp.max_pages = 2
    /\ Cardinality(cp.crawled_urls) = 2 /\ cp.urls_to_crawl # {}
    /\ \E u, v \in cp.crawled_urls :
        u # v /\ \E k \in DOMAIN Links(cp.site, v) : Links(cp.site, v)[k] = u


(***************************************************************************)
(* UnityDocsDownloader.download_and_extract.  cp holds the download         *)
(* directory and the frame of the call.                                     *)
(***************************************************************************)
MaxCalls == 2

\* the versions the offline documentation page can announce
Versions == {"2022.2", "2022.3"}

\* an empty download directory; top is the directory the ZIP holds
DownloadInit ==
    /\ Init!1 /\ Init!2 /\ Init!3 /\ Init!4 /\ Init!5 /\ Init!6 /\ Init!7 /\ Init!8
    /\ Init!9 /\ Init!10
    /\ \E top \in {"Documentation", "UnityDocumentation"} :
        cp = [pc |-> "idle", top |-> top, zip_path |-> FALSE, partial |-> FALSE,
              extract_dir |-> FALSE, docs_dir |-> FALSE, version |-> None,
              latest |-> None, force |-> FALSE, calls |-> 0, completed |-> FALSE,
              unchanged |-> FALSE, downloaded |-> FALSE, extracted |-> FALSE,
              returned |-> None, before |-> None]

\* download_and_extract(force) is called; the page announces latest
download_and_extract ==
    /\ cp.pc = "idle" /\ cp.calls < MaxCalls
    /\ \E force \in BOOLEAN, latest \in Versions :
        cp' = [cp EXCEPT !.pc = "download", !.force = force, !.latest = latest,
                         !.calls = @ + 1,
                         !.unchanged = cp.completed /\ ~force /\ latest = cp.version,
                         !.downloaded = FALSE, !.extracted = FALSE,
                         !.before = cp.returned]
    /\ UNCHANGED <<store_vars, loop_vars, lookup, q>>

\* if self.zip_path.exists() and not force: return self.zip_path, with force
\* set by check_for_updates when a saved version differs from the latest
ZipKept(f) ==
    f.zip_path /\ ~(f.force \/ (f.version # None /\ f.version # f.latest))

\* self.download(force): the ZIP is kept, or fetched and its version saved
Download ==
    /\ cp.pc = "download"
    /\ IF ZipKept(cp)
       THEN cp' = [cp EXCEPT !.pc = "extract"]
       ELSE cp' = [cp EXCEPT !.pc = "extract", !.zip_path = TRUE, !.partial = FALSE,
                             !.version = cp.latest, !.downloaded = TRUE]
    /\ UNCHANGED <<store_vars, loop_vars, lookup, q>>

\* requests.get raises, or the connection breaks while the ZIP is written
DownloadRaises ==
    /\ cp.pc = "download" /\ ~ZipKept(cp)
    /\ \E written \in BOOLEAN :
        cp' = [cp EXCEPT !.pc = "idle", !.returned = "raised",
                         !.zip_path = @ \/ written, !.partial = @ \/ written]
    /\ UNCHANGED <<store_vars, loop_vars, lookup, q>>

\* return self.extract(force)
ExtractZip ==
    /\ cp.pc = "extract"
    /\ IF cp.extract_dir /\ ~cp.force
       THEN cp' = [cp EXCEPT !.pc = "idle", !.returned = "UnityDocumentation",
                             !.completed = TRUE]
       ELSE IF cp.partial
       THEN cp' = [cp EXCEPT !.pc = "idle", !.returned = "raised", !.docs_dir = FALSE]
       ELSE cp' = [cp EXCEPT !.pc = "idle", !.returned = "Documentation",
                             !.docs_dir = (cp.top = "Documentation"),
                             !.extract_dir = @ \/ cp.top = "UnityDocumentation",
                             !.zip_path = FALSE, !.extracted = TRUE,
                             !.completed = TRUE]
    /\ UNCHANGED <<store_vars, loop_vars, lookup, q>>

DownloadSpec ==
    DownloadInit
        /\ [][download_and_extract \/ Download \/ DownloadRaises \/ ExtractZip]_vars

\* C30: download_and_extract is idempotent for an unchanged version: after
\* it has completed once, a call with force=False while the latest version
\* equals the saved version downloads no ZIP, extracts nothing and returns
\* the same documentation directory.
C30_Idempotent ==
    (cp.pc = "idle" /\ cp.unchanged) =>
        /\ ~cp.downloaded /\ ~cp.extracted
        /\ cp.returned = cp.before

====
